---- MODULE Spec2Model ----
(***************************************************************************)
(* A model of gmail_filters_curator.py: the validation of the entries of   *)
(* an exported Gmail filter feed (check_filter_entity_properties), the     *)
(* extraction of an entry's label (get_filter_entry_label), the reordering *)
(* of the feed's entries by label (sort_filter_entries_by_label) and the   *)
(* run of main that chains them before write_xml_root.                     *)
(*                                                                         *)
(* An element is a record [id, tag, attrib, text, children]:               *)
(*   id        the identity of the Python object (Element.remove compares  *)
(*             by identity); 0 for the children of an entry, which are     *)
(*             never compared by identity;                                 *)
(*   tag       the "{namespace}local" string ElementTree gives;            *)
(*   attrib    the attribute dictionary, a record whose domain is the set  *)
(*             of attributes present (a missing key raises KeyError);      *)
(*   text      <<>> for None, <<s>> for the string s;                      *)
(*   children  the ordered sequence of child elements.                     *)
(* The feed element itself is represented by the sequence of its children. *)
(* Assert statements are executed (the interpreter runs without -O).       *)
(***************************************************************************)
EXTENDS Integers, Sequences, FiniteSets, TLC

VARIABLES
    input,      \* the children of the root as parsed by get_xml_root
    root,       \* the children of xml_root, mutated in place by the sort
    pc,         \* where the run is: parsed, checked, sorted, written, failed
    error,      \* the exception that ended the run and the function it left
    reported,   \* what check_filter_entity_properties printed and raised, in order
    output,     \* <<>> until write_xml_root runs, then <<document written>>
    calls,      \* number of calls of sort_filter_entries_by_label so far
    before,     \* the children of xml_root when the latest sort call began
    keys        \* results of the key function during the latest sort call

vars == <<input, root, pc, error, reported, output, calls, before, keys>>

----------------------------------------------------------------------------
(* Bounds of the model. *)

\* entries per document in the run of main
MaxEntries == 2
\* deviations from a well-formed entry, over a whole document, in the run of main
MaxEdits == 2
\* entries per document when the sort is exercised on its own
SortMaxEntries == 3
\* deviations from a well-formed entry, over a whole document, for the sort
SortMaxEdits == 1
\* non-entry children of the root in the run of main
MaxOthers == 1
\* non-entry children of the root when the sort is exercised on its own
SortMaxOthers == 2
\* successive calls of sort_filter_entries_by_label
MaxCalls == 2

----------------------------------------------------------------------------
(* Namespaces and tags. *)

xml_default_namespace == "http://www.w3.org/2005/Atom"

xml_apps_namespace == "http://schemas.google.com/apps/2006"

get_xml_tag_with_namespace(namespace, tag) == "{" \o namespace \o "}" \o tag

EntryTag == get_xml_tag_with_namespace(xml_default_namespace, "entry")

CategoryTag == get_xml_tag_with_namespace(xml_default_namespace, "category")

TitleTag == get_xml_tag_with_namespace(xml_default_namespace, "title")

IdTag == get_xml_tag_with_namespace(xml_default_namespace, "id")

UpdatedTag == get_xml_tag_with_namespace(xml_default_namespace, "updated")

ContentTag == get_xml_tag_with_namespace(xml_default_namespace, "content")

PropertyTag == get_xml_tag_with_namespace(xml_apps_namespace, "property")

required_filter_entry_tags ==
    {CategoryTag, TitleTag, IdTag, UpdatedTag, ContentTag, PropertyTag}

required_filter_entry_properties == {"from", "label", "shouldNeverSpam"}

----------------------------------------------------------------------------
(* Elements. *)

NoAttrib == [k \in {} |-> ""]

None == <<>>

Elem(id, tag, attrib, text, children) ==
    [id |-> id, tag |-> tag, attrib |-> attrib, text |-> text, children |-> children]

Leaf(tag, attrib, text) == Elem(0, tag, attrib, text, <<>>)

Prop(name, value) == Leaf(PropertyTag, [name |-> name, value |-> value], None)

\* xml_root.findall(tag): the direct children with that tag, in document order
findall(children, tag) == SelectSeq(children, LAMBDA c : c.tag = tag)

----------------------------------------------------------------------------
(* Python's str ordering: by code point, a proper prefix first. *)

\* the code points of the strings that occur as labels in the model
CodePoints(s) ==
    CASE s = "" -> <<>>
      [] s = "App" -> <<65, 112, 112>>
      [] s = "Apple" -> <<65, 112, 112, 108, 101>>
      [] s = "Zebra" -> <<90, 101, 98, 114, 97>>
      [] s = "apple" -> <<97, 112, 112, 108, 101>>

RECURSIVE SeqLess(_, _)
SeqLess(a, b) ==
    IF b = <<>> THEN FALSE
    ELSE IF a = <<>> THEN TRUE
    ELSE IF Head(a) # Head(b) THEN Head(a) < Head(b)
    ELSE SeqLess(Tail(a), Tail(b))

\* a < b for two Python strings
StrLess(a, b) == SeqLess(CodePoints(a), CodePoints(b))

----------------------------------------------------------------------------
(* get_filter_entry_label *)

NoResult == [exc |-> "none", label |-> ""]

Raises(exc) == [exc |-> exc, label |-> ""]

\* LabelScan without the break: the last property named "label" wins
RECURSIVE LabelScanLast(_, _)
LabelScanLast(children, i) ==
    IF i > Len(children) THEN NoResult
    ELSE LET child == children[Len(children) + 1 - i] IN
         IF child.tag # PropertyTag THEN LabelScanLast(children, i + 1)
         ELSE IF "name" \notin DOMAIN child.attrib THEN Raises("KeyError")
         ELSE IF child.attrib.name # "label" THEN LabelScanLast(children, i + 1)
         ELSE IF "value" \notin DOMAIN child.attrib THEN Raises("KeyError")
         ELSE [exc |-> "none", label |-> child.attrib.value]

\* the for loop: the value of the first property named "label", '' when the
\* loop ends without one; child.attrib[...] raises KeyError on a missing key
RECURSIVE LabelScan(_, _)
LabelScan(children, i) ==
    IF i > Len(children) THEN NoResult
    ELSE LET child == children[i] IN
         IF child.tag # PropertyTag THEN LabelScan(children, i + 1)
         ELSE IF "name" \notin DOMAIN child.attrib THEN Raises("KeyError")
         ELSE IF child.attrib.name # "label" THEN LabelScan(children, i + 1)
         ELSE IF "value" \notin DOMAIN child.attrib THEN Raises("KeyError")
         ELSE [exc |-> "none", label |-> child.attrib.value]

get_filter_entry_label(entry) ==
    LET r == LabelScan(entry.children, 1) IN
    IF r.exc # "none" THEN r
    ELSE IF Len(r.label) > 0 THEN r
    ELSE Raises("AssertionError")

----------------------------------------------------------------------------
(* sort_filter_entries_by_label *)

\* list.sort(key=...) first calls the key function on every element, in order;
\* the first exception ends the call
RECURSIVE KeyResults(_)
KeyResults(entries) ==
    IF entries = <<>> THEN <<>>
    ELSE LET r == get_filter_entry_label(Head(entries)) IN
         IF r.exc # "none" THEN <<r>>
         ELSE <<r>> \o KeyResults(Tail(entries))

KeyOf(entry) == get_filter_entry_label(entry).label

\* InsertSorted with the comparison turned round: e goes before the first
\* element whose key is not less than its own, hence before an equal key
RECURSIVE InsertSortedTiesFirst(_, _)
InsertSortedTiesFirst(sorted, e) ==
    IF sorted = <<>> THEN <<e>>
    ELSE IF ~StrLess(KeyOf(Head(sorted)), KeyOf(e)) THEN <<e>> \o sorted
    ELSE <<Head(sorted)>> \o InsertSortedTiesFirst(Tail(sorted), e)

\* one insertion of the stable sort: e goes before the first element whose
\* key is greater than its own, hence after every element with an equal key
RECURSIVE InsertSorted(_, _)
InsertSorted(sorted, e) ==
    IF sorted = <<>> THEN <<e>>
    ELSE IF StrLess(KeyOf(e), KeyOf(Head(sorted))) THEN <<e>> \o sorted
    ELSE <<Head(sorted)>> \o InsertSorted(Tail(sorted), e)

RECURSIVE SortFrom(_, _)
SortFrom(sorted, rest) ==
    IF rest = <<>> THEN sorted
    ELSE SortFrom(InsertSorted(sorted, Head(rest)), Tail(rest))

RECURSIVE Reversed(_)
Reversed(seq) == IF seq = <<>> THEN <<>> ELSE Append(Reversed(Tail(seq)), Head(seq))

\* list_sort that takes the entries from the last to the first, so that
\* equal keys come out in reverse order
list_sort_backwards(entries) == SortFrom(<<>>, Reversed(entries))

\* filter_entries.sort(key=...): ascending by key, stable
list_sort(entries) == SortFrom(<<>>, entries)

\* remove that finds nothing to drop
remove_nothing(children, entry) == children

\* xml_root.remove(entry): drops the first child that is this object
RECURSIVE remove(_, _)
remove(children, entry) ==
    IF children = <<>> THEN <<>>
    ELSE IF Head(children).id = entry.id THEN Tail(children)
    ELSE <<Head(children)>> \o remove(Tail(children), entry)

\* Reattach that puts each entry back in front of the children
RECURSIVE ReattachFront(_, _)
ReattachFront(children, entries) ==
    IF entries = <<>> THEN children
    ELSE ReattachFront(<<Head(entries)>> \o remove(children, Head(entries)),
                       Tail(entries))

\* the loop of lines 100 to 102: remove, then append, each entry in turn
RECURSIVE Reattach(_, _)
Reattach(children, entries) ==
    IF entries = <<>> THEN children
    ELSE Reattach(Append(remove(children, Head(entries)), Head(entries)),
                  Tail(entries))

sort_filter_entries_by_label(children) ==
    LET filter_entries == findall(children, EntryTag)
        ks == KeyResults(filter_entries)
        exc == IF ks = <<>> THEN "none" ELSE ks[Len(ks)].exc
    IN  [exc |-> exc,
         keys |-> ks,
         root |-> IF exc # "none" THEN children
                  ELSE Reattach(children, list_sort(filter_entries))]

----------------------------------------------------------------------------
(* check_filter_entity_properties *)

\* What the function does at one source line: exc is "print" for a print,
\* "AssertionError" for a failed assert, "KeyError" for a missing attribute.
Printed(line) == <<[line |-> line, exc |-> "print"]>>

Raise(line, exc) == <<[line |-> line, exc |-> exc]>>

\* an exception propagates: the events of a step end with it
Raised(events) == events # <<>> /\ events[Len(events)].exc # "print"

\* assert <ok> at the line
AssertAt(line, ok) == IF ok THEN <<>> ELSE Raise(line, "AssertionError")

\* assert len(child.attrib['value']) > 0 at the line
AssertValueNonEmpty(child, line) ==
    IF "value" \notin DOMAIN child.attrib THEN Raise(line, "KeyError")
    ELSE AssertAt(line, Len(child.attrib.value) > 0)

\* assert child.attrib['value'] == expected at the line
AssertValueIs(child, line, expected) ==
    IF "value" \notin DOMAIN child.attrib THEN Raise(line, "KeyError")
    ELSE AssertAt(line, child.attrib.value = expected)

\* the label branch with its assert left out
CheckLabelUnchecked(child) == <<>>

\* lines 60 and 61: the value of a label property is not empty
CheckLabel(child) == AssertValueNonEmpty(child, 61)

\* lines 77 and 78: a property of any other name is printed, name and value
UnknownProperty(child) ==
    IF "value" \notin DOMAIN child.attrib THEN Raise(78, "KeyError")
    ELSE Printed(78)

\* lines 79 and 80: a child of any other tag is printed
UnknownTag(child) == Printed(80)

\* the branch of lines 57 to 78, for a child with the property tag
CheckProperty(child) ==
    IF "name" \notin DOMAIN child.attrib THEN Raise(57, "KeyError")
    ELSE LET name == child.attrib.name IN
         CASE name = "from" -> AssertValueNonEmpty(child, 59)
           [] name = "label" -> CheckLabel(child)
           [] name = "shouldArchive" ->
                Printed(63) \o AssertValueIs(child, 64, "false")
           [] name = "shouldNeverSpam" -> AssertValueIs(child, 66, "true")
           [] name = "shouldStar" ->
                Printed(68) \o AssertValueIs(child, 69, "true")
           [] name = "shouldAlwaysMarkAsImportant" ->
                Printed(71) \o AssertValueIs(child, 72, "true")
           [] name = "sizeOperator" -> AssertValueIs(child, 74, "s_sl")
           [] name = "sizeUnit" -> AssertValueIs(child, 76, "s_smb")
           [] OTHER -> UnknownProperty(child)

\* the body of the loop over the children of an entry, lines 46 to 80
CheckChild(child) ==
    CASE child.tag = CategoryTag ->
            IF "term" \notin DOMAIN child.attrib THEN Raise(47, "KeyError")
            ELSE AssertAt(47, child.attrib.term = "filter")
      [] child.tag = TitleTag -> AssertAt(49, child.text = <<"Mail Filter">>)
      [] child.tag = IdTag ->
            AssertAt(51, child.text # None /\ Len(child.text[1]) > 0)
      [] child.tag = UpdatedTag ->
            AssertAt(53, child.text # None /\ Len(child.text[1]) > 0)
      [] child.tag = ContentTag -> AssertAt(55, child.text = None)
      [] child.tag = PropertyTag -> CheckProperty(child)
      [] OTHER -> UnknownTag(child)

\* the events of a step, marked with the entry and the child they are about
\* (child 0: the two asserts after the loop)
Stamp(events, entry, i) ==
    [k \in 1..Len(events) |->
        [entry |-> entry.id, child |-> i,
         line |-> events[k].line, exc |-> events[k].exc]]

\* CheckRequired without line 83
CheckRequiredTagsOnly(entry_tags, entry_properties) ==
    AssertAt(82, required_filter_entry_tags \subseteq entry_tags)

\* lines 82 and 83, once the loop over the children is over
CheckRequired(entry_tags, entry_properties) ==
    IF ~(required_filter_entry_tags \subseteq entry_tags)
    THEN Raise(82, "AssertionError")
    ELSE AssertAt(83, required_filter_entry_properties \subseteq entry_properties)

\* CheckEntryFrom that notes a failure and goes on to the next child
RECURSIVE CheckEntryCollecting(_, _, _, _)
CheckEntryCollecting(entry, i, entry_tags, entry_properties) ==
    IF i > Len(entry.children)
    THEN Stamp(CheckRequired(entry_tags, entry_properties), entry, 0)
    ELSE LET child == entry.children[i] IN
         Stamp(CheckChild(child), entry, i) \o
         CheckEntryCollecting(entry, i + 1, entry_tags \cup {child.tag},
             IF child.tag = PropertyTag /\ "name" \in DOMAIN child.attrib
             THEN entry_properties \cup {child.attrib.name}
             ELSE entry_properties)

\* the loop over the children of one entry, from child i on, then lines 82, 83
RECURSIVE CheckEntryFrom(_, _, _, _)
CheckEntryFrom(entry, i, entry_tags, entry_properties) ==
    IF i > Len(entry.children)
    THEN Stamp(CheckRequired(entry_tags, entry_properties), entry, 0)
    ELSE LET child == entry.children[i]
             events == Stamp(CheckChild(child), entry, i)
         IN  IF Raised(events) THEN events
             ELSE events \o
                  CheckEntryFrom(entry, i + 1, entry_tags \cup {child.tag},
                      IF child.tag = PropertyTag
                      THEN entry_properties \cup {child.attrib.name}
                      ELSE entry_properties)

CheckEntry(entry) == CheckEntryFrom(entry, 1, {}, {})

\* the loop over the entries, line 41
RECURSIVE CheckEntries(_)
CheckEntries(filter_entries) ==
    IF filter_entries = <<>> THEN <<>>
    ELSE LET events == CheckEntry(Head(filter_entries)) IN
         IF Raised(events) THEN events
         ELSE events \o CheckEntries(Tail(filter_entries))

\* everything the call prints and raises, in order
check_filter_entity_properties(children) ==
    CheckEntries(findall(children, EntryTag))

----------------------------------------------------------------------------
(* The documents get_xml_root can return: entries as Gmail exports them, with
   a bounded number of deviations, among other children of the feed. *)

\* the labels of the model; "App" is a prefix of "Apple", and "Apple" and
\* "Zebra" sort before "apple" by code point
LabelPool == {"App", "Apple", "apple"}

MainLabels == {"Apple", "Zebra"}

\* the children of an entry as Gmail exports it
BaseChildren(label) ==
    << Leaf(CategoryTag, [term |-> "filter"], None),
       Leaf(TitleTag, NoAttrib, <<"Mail Filter">>),
       Leaf(IdTag, NoAttrib, <<"tag:mail.google.com,2008:filter:1">>),
       Leaf(UpdatedTag, NoAttrib, <<"2021-03-15T00:00:00Z">>),
       Leaf(ContentTag, NoAttrib, None),
       Prop("from", "a@example.com"),
       Prop("label", label),
       Prop("shouldNeverSpam", "true") >>

NoNode == Leaf("", NoAttrib, None)

Delete(pos) == [op |-> "delete", pos |-> pos, node |-> NoNode]

Replace(pos, node) == [op |-> "replace", pos |-> pos, node |-> node]

InsertFront(node) == [op |-> "front", pos |-> 0, node |-> node]

InsertEnd(node) == [op |-> "end", pos |-> 0, node |-> node]

\* the deviations of the model
EditPool ==
    << Delete(1),
       Replace(1, Leaf(CategoryTag, [term |-> "other"], None)),
       Replace(1, Leaf(CategoryTag, NoAttrib, None)),
       Replace(2, Leaf(TitleTag, NoAttrib, <<"Other">>)),
       Replace(3, Leaf(IdTag, NoAttrib, None)),
       Delete(4),
       Replace(5, Leaf(ContentTag, NoAttrib, <<"text">>)),
       Delete(6),
       Replace(6, Prop("from", "")),
       Replace(7, Prop("label", "")),
       Delete(7),
       Replace(7, Leaf(PropertyTag, [name |-> "label"], None)),
       Replace(8, Prop("shouldNeverSpam", "false")),
       Delete(8),
       InsertFront(Prop("label", "Zebra")),
       InsertFront(Leaf(PropertyTag, [value |-> "x"], None)),
       InsertFront(Leaf(get_xml_tag_with_namespace(xml_default_namespace, "link"),
                        NoAttrib, None)),
       InsertEnd(Prop("label", "App")),
       InsertEnd(Prop("label", "")),
       InsertEnd(Prop("foo", "bar")),
       InsertEnd(Leaf(PropertyTag, [name |-> "foo"], None)),
       InsertEnd(Prop("shouldStar", "true")),
       InsertEnd(Prop("shouldArchive", "true")),
       InsertEnd(Prop("shouldAlwaysMarkAsImportant", "true")),
       InsertEnd(Prop("sizeOperator", "s_sl")),
       InsertEnd(Prop("sizeUnit", "s_mb")) >>

AllEdits == 1..Len(EditPool)

\* the deviations that touch what get_filter_entry_label reads
LabelEdits ==
    {k \in AllEdits :
        \/ EditPool[k].pos = 7
        \/ /\ EditPool[k].op \in {"front", "end"}
           /\ EditPool[k].node.tag = PropertyTag
           /\ \/ "name" \notin DOMAIN EditPool[k].node.attrib
              \/ EditPool[k].node.attrib.name \in {"label", "foo"}}

\* the nodes the chosen edits insert at one end, in the pool's order
RECURSIVE Inserted(_, _, _)
Inserted(edits, op, k) ==
    IF k > Len(EditPool) THEN <<>>
    ELSE (IF k \in edits /\ EditPool[k].op = op THEN <<EditPool[k].node>> ELSE <<>>)
         \o Inserted(edits, op, k + 1)

\* the base children from position pos on, with the chosen edits applied
RECURSIVE Edited(_, _, _)
Edited(base, edits, pos) ==
    IF pos > Len(base) THEN <<>>
    ELSE LET del == \E k \in edits : EditPool[k] = Delete(pos)
             rep == {k \in edits : EditPool[k].op = "replace" /\ EditPool[k].pos = pos}
         IN  (IF del THEN <<>>
              ELSE IF rep # {} THEN <<EditPool[CHOOSE k \in rep : \A j \in rep : k <= j].node>>
              ELSE <<base[pos]>>)
             \o Edited(base, edits, pos + 1)

EntryChildren(label, edits) ==
    Inserted(edits, "front", 1) \o Edited(BaseChildren(label), edits, 1)
        \o Inserted(edits, "end", 1)

\* the j-th non-entry child of the feed
OtherNode(j) ==
    IF j = 1
    THEN Elem(0 - j, TitleTag, NoAttrib, <<"Mail Filters">>, <<>>)
    ELSE Elem(0 - j, get_xml_tag_with_namespace(xml_default_namespace, "author"),
              NoAttrib, None, <<>>)

RECURSIVE SubsetsUpTo(_, _)
SubsetsUpTo(S, k) ==
    IF k = 0 THEN {{}}
    ELSE LET P == SubsetsUpTo(S, k - 1) IN P \cup {p \cup {x} : p \in P, x \in S}

\* where the entries ("e") and the other children ("o") stand among the
\* children of the feed
Layouts(n, m) ==
    {l \in [1..(n + m) -> {"e", "o"}] : Cardinality({k \in 1..(n + m) : l[k] = "e"}) = n}

\* the number of positions up to k that hold the same kind of node as k
Rank(layout, k) == Cardinality({j \in 1..k : layout[j] = layout[k]})

Document(labels, edits, layout) ==
    [k \in 1..Len(layout) |->
        LET r == Rank(layout, k) IN
        IF layout[k] = "e"
        THEN Elem(r, EntryTag, NoAttrib, None,
                  EntryChildren(labels[r], {e[2] : e \in {x \in edits : x[1] = r}}))
        ELSE OtherNode(r)]

\* get_xml_root returned, and nothing has run yet
Parsed(maxEntries, maxOthers, labelPool, editPool, maxEdits) ==
    /\ \E n \in 0..maxEntries, m \in 0..maxOthers :
         \E layout \in Layouts(n, m) :
           \E edits \in SubsetsUpTo((1..n) \X editPool, maxEdits) :
             \E labels \in [1..n -> labelPool] :
                input = Document(labels, edits, layout)
    /\ root = input
    /\ pc = "parsed"
    /\ error = [exc |-> "none", fn |-> ""]
    /\ reported = <<>>
    /\ output = <<>>
    /\ calls = 0
    /\ before = <<>>
    /\ keys = <<>>

----------------------------------------------------------------------------
(* main: lines 139 to 142 *)

Init == Parsed(MaxEntries, MaxOthers, MainLabels, AllEdits, MaxEdits)

\* line 140
Check ==
    /\ pc = "parsed"
    /\ LET log == check_filter_entity_properties(root) IN
         /\ reported' = log
         /\ IF Raised(log)
            THEN /\ pc' = "failed"
                 /\ error' = [exc |-> log[Len(log)].exc,
                              fn |-> "check_filter_entity_properties"]
            ELSE /\ pc' = "checked"
                 /\ UNCHANGED error
    /\ UNCHANGED <<input, root, output, calls, before, keys>>

\* one call of sort_filter_entries_by_label(xml_root)
CallSort ==
    LET r == sort_filter_entries_by_label(root) IN
      /\ calls' = calls + 1
      /\ before' = root
      /\ keys' = r.keys
      /\ root' = r.root
      /\ IF r.exc # "none"
         THEN /\ pc' = "failed"
              /\ error' = [exc |-> r.exc, fn |-> "sort_filter_entries_by_label"]
         ELSE /\ pc' = "sorted"
              /\ UNCHANGED error
      /\ UNCHANGED <<input, reported, output>>

\* line 141
Sort == pc = "checked" /\ CallSort

\* line 142: the document as it then is goes to the output file
Write ==
    /\ pc = "sorted"
    /\ output' = <<root>>
    /\ pc' = "written"
    /\ UNCHANGED <<input, root, error, reported, calls, before, keys>>

Next == Check \/ Sort \/ Write

Spec == Init /\ [][Next]_vars

----------------------------------------------------------------------------
(* sort_filter_entries_by_label on its own, called on any document and then
   again on its result *)

InitSort == Parsed(SortMaxEntries, SortMaxOthers, LabelPool, LabelEdits, SortMaxEdits)

SortAgain ==
    /\ pc \in {"parsed", "sorted"}
    /\ calls < MaxCalls
    /\ CallSort

NextSort == SortAgain

SpecSort == InitSort /\ [][NextSort]_vars

----------------------------------------------------------------------------
(* What the claims speak of, stated without the functions under test. *)

Entries(children) == SelectSeq(children, LAMBDA c : c.tag = EntryTag)

Others(children) == SelectSeq(children, LAMBDA c : c.tag # EntryTag)

\* the positions of the children of an entry that are properties named "label"
LabelProps(entry) ==
    {i \in 1..Len(entry.children) :
        /\ entry.children[i].tag = PropertyTag
        /\ "name" \in DOMAIN entry.children[i].attrib
        /\ entry.children[i].attrib.name = "label"}

FirstLabelProp(entry) == CHOOSE i \in LabelProps(entry) : \A j \in LabelProps(entry) : i <= j

ValueAt(entry, i) ==
    IF "value" \in DOMAIN entry.children[i].attrib
    THEN entry.children[i].attrib.value ELSE ""

\* the label of an entry: the value of its first label property
LabelOf(entry) ==
    IF LabelProps(entry) = {} THEN "" ELSE ValueAt(entry, FirstLabelProp(entry))

\* the entry has a non-empty label, and no property before it lacks its name
WellLabelled(entry) ==
    /\ LabelOf(entry) # ""
    /\ \A j \in 1..FirstLabelProp(entry) :
          entry.children[j].tag = PropertyTag => "name" \in DOMAIN entry.children[j].attrib

\* the position of an element among some children, by identity
PosIn(children, elem) == CHOOSE k \in 1..Len(children) : children[k].id = elem.id

\* the labels of the entries, read in document order, never decrease
LabelSorted(children) ==
    LET es == Entries(children) IN
    \A i, j \in 1..Len(es) : i < j => ~StrLess(LabelOf(es[j]), LabelOf(es[i]))

\* entries with equal labels stand in the order they had in `old`
TiesKept(children, old) ==
    LET es == Entries(children) IN
    \A i, j \in 1..Len(es) :
        (i < j /\ LabelOf(es[i]) = LabelOf(es[j])) => PosIn(old, es[i]) < PosIn(old, es[j])

Range(seq) == {seq[k] : k \in 1..Len(seq)}

----------------------------------------------------------------------------
(* Claims about sort_filter_entries_by_label, checked under SpecSort. *)

\* C1: when every entry of the document has a non-empty label, the call
\* returns normally; and after a call that returned normally the labels of the
\* entries, in document order, are non-decreasing and entries with equal labels
\* are in the relative order they had before the call.
C1_SortedStable ==
    calls >= 1 =>
        /\ (\A e \in Range(Entries(before)) : WellLabelled(e)) => pc = "sorted"
        /\ pc = "sorted" => LabelSorted(root) /\ TiesKept(root, before)

\* C1 witness: a call reordered three entries, two of which share a label and
\* were separated by the third.
C1_Witness ==
    /\ calls = 1 /\ pc = "sorted" /\ root # before
    /\ LET es == Entries(before) IN
         /\ Len(es) = 3
         /\ LabelOf(es[1]) = LabelOf(es[3])
         /\ StrLess(LabelOf(es[2]), LabelOf(es[1]))

\* C5: a second call, right after a first one that returned normally, returns
\* normally and leaves the children of the root exactly as the first call left
\* them.
C5_TwiceIsOnce == calls = 2 => (pc = "sorted" /\ root = before)

\* C5 witness: two calls were made and the first one changed the document.
C5_Witness ==
    /\ calls = 2 /\ pc = "sorted" /\ root # input
    /\ Len(Entries(input)) >= 2 /\ Len(Others(input)) >= 1

\* C6 as claimed: a call on a document whose entries are already in label
\* order leaves the children of the root unchanged, wherever the non-entry
\* children stand.
C6_SortedUnchanged ==
    (calls = 1 /\ pc = "sorted" /\ LabelSorted(before)) => root = before

\* C6 amended: a call on a document whose entries are already in label order
\* puts the non-entry children first and the entries after them, each group in
\* its order; so the document is unchanged when no non-entry child follows an
\* entry.
C6_SortedMovedBehind ==
    (calls >= 1 /\ pc = "sorted" /\ LabelSorted(before)) =>
        /\ root = Others(before) \o Entries(before)
        /\ (before = Others(before) \o Entries(before)) => root = before

\* C6 witness: a call on a document with a non-entry child in front of two
\* entries in label order, one of them a tie-free pair, left it unchanged.
C6_Witness ==
    /\ calls = 1 /\ pc = "sorted" /\ LabelSorted(before)
    /\ Len(Entries(before)) >= 2 /\ Len(Others(before)) >= 1
    /\ before[1].tag # EntryTag
    /\ root = before

\* C7: a call changes only where the entries stand: the root holds the same
\* entry elements as before, each once and with its children and attributes
\* unchanged, and the non-entry children are the same elements in the same
\* order.
C7_OnlyPlacement ==
    calls >= 1 =>
        /\ Len(root) = Len(before)
        /\ Range(Entries(root)) = Range(Entries(before))
        /\ Cardinality({e.id : e \in Range(Entries(root))}) = Len(Entries(root))
        /\ Others(root) = Others(before)

\* C7 witness: a call moved entries in a document with two non-entry children,
\* one of them behind an entry.
C7_Witness ==
    /\ calls = 1 /\ pc = "sorted" /\ root # before
    /\ Len(Others(before)) = 2 /\ Len(Entries(before)) >= 2
    /\ before[Len(before)].tag # EntryTag

----------------------------------------------------------------------------
(* The claim about get_filter_entry_label, checked under SpecSort on the
   results the key function gave during the latest call of the sort. *)

\* the entry the i-th key of the latest call was computed for
KeyEntry(i) == Entries(before)[i]

\* C8 as claimed: extraction succeeds exactly for an entry with exactly one
\* label property whose value is non-empty, and returns that value.
C8_ExactlyOneLabel ==
    \A i \in 1..Len(keys) :
        /\ keys[i].exc = "none" <=>
              (Cardinality(LabelProps(KeyEntry(i))) = 1 /\ LabelOf(KeyEntry(i)) # "")
        /\ keys[i].exc = "none" => keys[i].label = LabelOf(KeyEntry(i))

\* C8 amended: extraction succeeds exactly for an entry with at least one
\* label property, the first of which has a non-empty value, and with a name
\* on every property before it; it returns the value of that first label
\* property, whatever label properties follow.
C8_FirstLabel ==
    \A i \in 1..Len(keys) :
        /\ keys[i].exc = "none" <=> WellLabelled(KeyEntry(i))
        /\ keys[i].exc = "none" => keys[i].label = LabelOf(KeyEntry(i))

\* C8 witness: extraction succeeded on an entry with two label properties of
\* different values and gave the first.
C8_Witness ==
    /\ calls = 1
    /\ \E i \in 1..Len(keys) :
          /\ keys[i].exc = "none"
          /\ Cardinality(LabelProps(KeyEntry(i))) = 2
          /\ \E j \in LabelProps(KeyEntry(i)) :
                ValueAt(KeyEntry(i), j) \notin {"", keys[i].label}

----------------------------------------------------------------------------
(* What validation is about, stated without check_filter_entity_properties:
   each child of an entry judged on its own, and the required sets. *)

\* the property names the checks know
KnownProperties ==
    {"from", "label", "shouldArchive", "shouldNeverSpam", "shouldStar",
     "shouldAlwaysMarkAsImportant", "sizeOperator", "sizeUnit"}

\* the child passes the check of its kind; a property needs its name and its
\* value to be read at all
FieldOk(child) ==
    LET a == child.attrib IN
    CASE child.tag = CategoryTag -> "term" \in DOMAIN a /\ a.term = "filter"
      [] child.tag = TitleTag -> child.text = <<"Mail Filter">>
      [] child.tag \in {IdTag, UpdatedTag} -> child.text \notin {<<>>, <<"">>}
      [] child.tag = ContentTag -> child.text = <<>>
      [] child.tag = PropertyTag ->
            /\ {"name", "value"} \subseteq DOMAIN a
            /\ a.name \in {"from", "label"} => a.value # ""
            /\ a.name = "shouldArchive" => a.value = "false"
            /\ a.name \in {"shouldNeverSpam", "shouldStar",
                           "shouldAlwaysMarkAsImportant"} => a.value = "true"
            /\ a.name = "sizeOperator" => a.value = "s_sl"
            /\ a.name = "sizeUnit" => a.value = "s_smb"
      [] OTHER -> TRUE

BadFields(entry) == {i \in 1..Len(entry.children) : ~FieldOk(entry.children[i])}

TagsOf(entry) == {entry.children[i].tag : i \in 1..Len(entry.children)}

NamesOf(entry) ==
    {entry.children[i].attrib.name :
        i \in {j \in 1..Len(entry.children) :
                  /\ entry.children[j].tag = PropertyTag
                  /\ "name" \in DOMAIN entry.children[j].attrib}}

MissingTags(entry) == required_filter_entry_tags \ TagsOf(entry)

MissingProperties(entry) == required_filter_entry_properties \ NamesOf(entry)

\* every violation of the entry: <<child, "field">> for a child that fails its
\* check, <<0, "tags">> and <<0, "properties">> for a missing required kind
\* and a missing required property
Violations(entry) ==
    {<<i, "field">> : i \in BadFields(entry)}
        \cup (IF MissingTags(entry) # {} THEN {<<0, "tags">>} ELSE {})
        \cup (IF MissingProperties(entry) # {} THEN {<<0, "properties">>} ELSE {})

HasViolation(entry) == Violations(entry) # {}

\* the children the rules do not describe: another tag, or a property of
\* another name
UnknownTags(entry) ==
    {i \in 1..Len(entry.children) : entry.children[i].tag \notin required_filter_entry_tags}

UnknownProperties(entry) ==
    {i \in 1..Len(entry.children) :
        /\ entry.children[i].tag = PropertyTag
        /\ "name" \in DOMAIN entry.children[i].attrib
        /\ entry.children[i].attrib.name \notin KnownProperties}

\* the raises among what validation reported
RaisedEvents == {k \in 1..Len(reported) : reported[k].exc # "print"}

\* the entry validation stopped at
FailedEntry ==
    CHOOSE e \in Range(Entries(input)) : e.id = reported[Len(reported)].entry

----------------------------------------------------------------------------
(* Claims about the run of main, checked under Spec. *)

\* C2: once validation has run on a document in which some entry has a
\* violation (a required kind or property missing, a field failing its check),
\* the run has ended in failure and nothing was written; so a written output
\* means no entry had a violation.
C2_NoOutputOnViolation ==
    /\ (pc # "parsed" /\ \E e \in Range(Entries(input)) : HasViolation(e)) =>
          (pc = "failed" /\ error.exc # "none" /\ output = <<>>)
    /\ output # <<>> => pc = "written"

\* C2 witness: the run failed, with no output, on a document with an entry
\* that lacks the "from" property and an entry with shouldNeverSpam="false".
C2_Witness ==
    /\ pc = "failed" /\ output = <<>>
    /\ \E e \in Range(Entries(input)) : "from" \in MissingProperties(e)
    /\ \E e \in Range(Entries(input)) :
          \E i \in BadFields(e) :
              /\ e.children[i].tag = PropertyTag
              /\ e.children[i].attrib = [name |-> "shouldNeverSpam", value |-> "false"]

\* C3: a document with an entry that has a child of an unknown kind or a
\* property of an unknown name never passes validation. The code only prints
\* such a child (lines 78 and 80) and lines 82 and 83 accept it, so a document
\* that is valid but for a property named "foo" is checked, sorted and written.
C3_UnknownIsFatal ==
    (pc # "parsed" /\ \E e \in Range(Entries(input)) :
                          UnknownTags(e) # {} \/ UnknownProperties(e) # {})
        => pc = "failed"

\* the labels the rule configuration exempts from validation
IgnoreList == {"Zebra"}

\* C4: an entry whose label is in the ignore list produces no violation:
\* validation never stops at such an entry.
C4_IgnoredEntryPasses ==
    (pc = "failed" /\ error.fn = "check_filter_entity_properties")
        => LabelOf(FailedEntry) \notin IgnoreList

\* C9 as claimed: when validation stops at an entry, every violation of that
\* entry has been reported.
C9_AllReported ==
    pc = "failed" =>
        Cardinality({k \in RaisedEvents : reported[k].entry = FailedEntry.id})
            = Cardinality(Violations(FailedEntry))

\* C9 amended: validation stops at the first violation it meets: exactly one
\* violation is reported, the last thing reported; it belongs to the first
\* entry, in document order, that has a violation, and is the first one of
\* that entry (its first failing child, else the missing kinds at line 82, else
\* the missing properties at line 83); no later child was looked at.
C9_FirstOnly ==
    pc = "failed" =>
        LET last == reported[Len(reported)]
            e == FailedEntry
            es == Entries(input)
        IN  /\ RaisedEvents = {Len(reported)}
            /\ \A k \in 1..(PosIn(es, e) - 1) : ~HasViolation(es[k])
            /\ HasViolation(e)
            /\ IF BadFields(e) # {}
               THEN /\ last.child \in BadFields(e)
                    /\ \A i \in BadFields(e) : last.child <= i
                    /\ \A k \in 1..Len(reported) :
                          reported[k].entry = e.id => reported[k].child \in 1..last.child
               ELSE /\ last.child = 0
                    /\ last.line = IF MissingTags(e) # {} THEN 82 ELSE 83

\* C9 witness: validation stopped at an entry that has two violations, a
\* failing field and a missing required property.
C9_Witness ==
    /\ pc = "failed"
    /\ Cardinality(Violations(FailedEntry)) = 2
    /\ <<0, "properties">> \in Violations(FailedEntry)
    /\ BadFields(FailedEntry) # {}

\* C10: when validation has passed, label extraction succeeds for every entry,
\* so the sort that follows cannot fail: a run fails only in validation, before
\* any reordering, and a run that has called the sort goes on to the output.
C10_SortCannotFail ==
    /\ pc = "checked" => \A e \in Range(Entries(root)) : WellLabelled(e)
    /\ pc = "failed" =>
          error.fn = "check_filter_entity_properties" /\ calls = 0 /\ root = input
    /\ calls >= 1 => pc \in {"sorted", "written"}

\* C10 witness: the output was written after the sort moved entries, one of
\* which has two label properties.
C10_Witness ==
    /\ pc = "written" /\ calls = 1 /\ root # input
    /\ \E e \in Range(Entries(input)) : Cardinality(LabelProps(e)) = 2

====
